---------------------------- MODULE Spec2Model ----------------------------
(***************************************************************************)
(* Bit-parallel pattern match vectors of jaro_winkler/details/common.hpp:  *)
(* BitvectorHashmap, PatternMatchVector and BlockPatternMatchVector.       *)
(*                                                                         *)
(* Representation.                                                         *)
(*  - A 64-bit mask (uint64_t value) is the set of its set bit positions,  *)
(*    a subset of 0..63: 0 is {}, 1ull << p is {p}, | is \cup.             *)
(*  - A 64-bit key is a record [hi, mid, lo] of limbs of 4, 30 and 30 bits *)
(*    (value hi * 2^60 + mid * 2^30 + lo), so that keys up to 2^64 - 1 and *)
(*    the signed reading of them (int64_t perturb = key) are exact.        *)
(*  - Undefined behaviour (an index outside m_map, signed overflow) is a   *)
(*    set of outcomes: lookup is modelled by the set of results it can     *)
(*    produce and the calling action picks one of them.                    *)
(***************************************************************************)
EXTENDS Integers, FiniteSets, Sequences, TLC

\* ---------------------------------------------------------------- constants
MapSize == 128
WordBits == 64
AsciiSize == 256
ProbeMul == 5
PerturbShift == 5

Limb == 2^30                       \* one 30-bit limb of a 64-bit word
ShiftDiv == 2^PerturbShift         \* x >> 5 divides by 32
SignHi == 2^3                      \* hi limb >= 8: bit 63 is set
MaxHi == 2^4 - 1                   \* the hi limb holds bits 60..63

Slot == 0 .. MapSize - 1
BitPos == 0 .. WordBits - 1

\* ---------------------------------------------------------------- 64-bit words
U64(h, m, l) == [hi |-> h, mid |-> m, lo |-> l]
Small(n) == U64(0, 0, n)

\* key % 128 on uint64_t (line 119)
Mod128(k) == k.lo % MapSize

\* key >= 0 && key <= 255 (lines 160, 174, 185, 214, 241), the key already
\* converted to its unsigned 64-bit value
IsNarrow(k) == k.hi = 0 /\ k.mid = 0 /\ k.lo <= AsciiSize - 1

\* the signed reading int64_t perturb = key is negative (line 125)
IsNeg(p) == p.hi >= SignHi

\* perturb >>= 5 on int64_t: arithmetic shift (line 132)
Sar5(p) ==
    LET s == IF IsNeg(p) THEN 1 ELSE 0
    IN  U64(MaxHi * s,
            (p.mid \div ShiftDiv) + (p.hi + 16 * s) * (Limb \div ShiftDiv),
            (p.lo \div ShiftDiv) + (p.mid % ShiftDiv) * (Limb \div ShiftDiv))

\* i = ((i * 5) + perturb + 1) % 128 on int64_t (line 127):
\* the sum S = 5i + 1 + perturb, its sign, whether it leaves int64_t, and the
\* C++ remainder (sign of the dividend) of the sum as two's complement wraps it.
NextIdx(i, p) ==
    LET c == ProbeMul * i + 1
        m == (ProbeMul * (i + MapSize) + 1 + p.lo) % MapSize
        \* S >= 0 as a mathematical integer
        nonneg == IF IsNeg(p)
                  THEN c > 0 /\ p.hi = MaxHi /\ p.mid = Limb - 1 /\ p.lo >= Limb - c
                  ELSE ~(c < 0 /\ p.hi = 0 /\ p.mid = 0 /\ p.lo < -c)
        \* S > INT64_MAX, or S < INT64_MIN
        over == ~IsNeg(p) /\ c > 0 /\ p.hi = SignHi - 1 /\ p.mid = Limb - 1
                          /\ p.lo > Limb - 1 - c
        under == IsNeg(p) /\ c < 0 /\ p.hi = SignHi /\ p.mid = 0 /\ p.lo < -c
        wrappedNonneg == IF over THEN FALSE ELSE IF under THEN TRUE ELSE nonneg
    IN  [ovf |-> over \/ under,
         i   |-> IF wrappedNonneg THEN m ELSE -((MapSize - m) % MapSize)]

\* ---------------------------------------------------------------- BitvectorHashmap
MapElem(k, v) == [key |-> k, value |-> v]

\* BitvectorHashmap() : m_map() (lines 84-90)
EmptyMap == [i \in Slot |-> MapElem(Small(0), {})]

\* a lookup that takes empty slots only
AcceptsEmptyOnly(m, i, key) == m[i].value = {}

\* !m_map[i].value || m_map[i].key == key (lines 121, 128)
Accepts(m, i, key) == m[i].value = {} \/ m[i].key = key

\* ---------------------------------------------------------------- input keys
AllOnes == U64(MaxHi, Limb - 1, Limb - 1)        \* 2^64 - 1
Top(n) == U64(SignHi, 0, n)                      \* 2^63 + n
Int64Max == U64(SignHi - 1, Limb - 1, Limb - 1)  \* 2^63 - 1
Wide(n) == Small(AsciiSize + n)                  \* the n-th key above 255
Emoji == Small(128512)                           \* 0x1F600

\* every key the inputs below use
Keys == {Small(n) : n \in 0 .. AsciiSize + 2 * MapSize}
        \cup {Emoji, Top(AsciiSize), AllOnes, Int64Max}

\* ---- the probe sequence of lookup (lines 117-134)
\* One probe: the index tried, the perturb the next re-probe will use, and
\* whether computing the index overflowed int64_t.
Probe(i, perturb, ovf) == [i |-> i, perturb |-> perturb, ovf |-> ovf]

\* before the loop: i = key % 128, perturb = key (lines 119, 125)
FirstProbe(key) == Probe(Mod128(key), key, FALSE)

\* one turn of while (true): the re-probe of line 127, then perturb >>= 5
NextProbe(pr) ==
    LET n == NextIdx(pr.i, pr.perturb)
    IN  Probe(n.i, Sar5(pr.perturb), n.ovf)

\* the n probes that start with pr, in order (n >= 1); halving keeps the
\* evaluation shallow
RECURSIVE ProbesFrom(_, _)
ProbesFrom(pr, n) ==
    IF n = 1
    THEN <<pr>>
    ELSE CHOOSE r \in { a \o ProbesFrom(NextProbe(a[Len(a)]), n - (n \div 2))
                        : a \in {ProbesFrom(pr, n \div 2)} } : TRUE

\* perturb is constant (0 or -1) after ceil(64 / 5) shifts; from then on the
\* index runs through a permutation of at most 128 values, so the probes
\* after the first 1 + 13 + 128 only repeat earlier ones
ProbeLen == 1 + ((WordBits + PerturbShift - 1) \div PerturbShift) + MapSize

\* the probe sequence depends on the key alone: one table for the input keys
ProbeTable == [k \in Keys |-> ProbesFrom(FirstProbe(k), ProbeLen)]

Probes(key) == ProbeTable[key]

Res(kind, i, ub) == [kind |-> kind, i |-> i, ub |-> ub]

\* int64_t lookup(uint64_t key) const (lines 117-134): the results it can
\* produce on map m.
\*   "slot": returns the in-range index i, the first probe that is empty or
\*           holds key;
\*   "oob":  an earlier probe is outside m_map and the garbage read there
\*           accepts it: returns that index;
\*   "trap": the signed sum of an earlier re-probe overflows and the build traps;
\*   "hang": no probe is ever accepted: the loop never returns.
\* ub is TRUE when undefined behaviour happened on the way to the result.
lookup(m, key) ==
    IF Accepts(m, Mod128(key), key)
    THEN {Res("slot", Mod128(key), FALSE)}
    ELSE
    LET ps   == Probes(key)
        hits == {k \in 1 .. ProbeLen : ps[k].i \in Slot /\ Accepts(m, ps[k].i, key)}
        stop == IF hits = {} THEN ProbeLen
                ELSE CHOOSE k \in hits : \A j \in hits : k <= j
        bad(k) == ps[k].ovf \/ ps[k].i \notin Slot
    IN  (IF hits = {}
         THEN {Res("hang", 0, \E j \in 1 .. stop : bad(j))}
         ELSE {Res("slot", ps[stop].i, \E j \in 1 .. stop : bad(j))})
        \cup {Res("oob", ps[j].i, TRUE) : j \in {x \in 1 .. stop : ps[x].i \notin Slot}}
        \cup {Res("trap", 0, TRUE) : j \in {x \in 1 .. stop : ps[x].ovf}}

\* 1ull << pos, for 0 <= pos < 64 (lines 95, 173, 211)
OneShl(pos) == {pos}

\* mask <<= 1 on uint64_t (line 166): bit 63 is shifted out
Shl1(mask) == {b + 1 : b \in {x \in mask : x + 1 < WordBits}}

\* insert_mask (lines 98-104) once lookup returned slot i
Store(m, i, key, mask) == [m EXCEPT ![i] = MapElem(key, @.value \cup mask)]

\* ---------------------------------------------------------------- outcomes of the calls
\* A call ends "ok", or "ub" (it returned after undefined behaviour), or it
\* never returns ("hang"), or the build aborts it ("abort").
Worse(st, st2) == IF st2 = "ok" THEN st ELSE st2

\* insert_mask(key, mask) (lines 98-104): the maps and statuses it can leave.
\* A store through an index outside m_map lands outside this map; a lookup
\* that never returns leaves the map as it was.
Wrote(m, st) == [m |-> m, st |-> st]

insert_mask(m, key, mask) ==
    { CASE r.kind = "slot" -> Wrote(Store(m, r.i, key, mask),
                                    IF r.ub THEN "ub" ELSE "ok")
        [] r.kind = "oob"  -> Wrote(m, "ub")
        [] r.kind = "trap" -> Wrote(m, "abort")
        [] OTHER           -> Wrote(m, "hang")
      : r \in lookup(m, key) }

\* what a read of memory outside the object can yield
Garbage == {{}, {0}, {WordBits - 1}}

Got(v, st) == [ret |-> v, st |-> st]

\* BitvectorHashmap::get (lines 106-110): the values and statuses it can yield
get(m, key) ==
    UNION { CASE r.kind = "slot" -> {Got(m[r.i].value, IF r.ub THEN "ub" ELSE "ok")}
              [] r.kind = "oob"  -> {Got(g, "ub") : g \in Garbage}
              [] r.kind = "trap" -> {Got({}, "abort")}
              [] OTHER           -> {Got({}, "hang")}
            : r \in lookup(m, key) }

\* ---------------------------------------------------------------- PatternMatchVector
\* PatternMatchVector() : m_map(), m_extendedAscii() (lines 145-146)
EmptyPV == [m_map |-> EmptyMap, m_extendedAscii |-> [c \in 0 .. AsciiSize - 1 |-> {}]]

Built(pv, st) == [pv |-> pv, st |-> st]

\* the routing of one (key, mask) (lines 160-165 and 174-179)
PVStore(pv, key, mask) ==
    IF IsNarrow(key)
    THEN {Built([pv EXCEPT !.m_extendedAscii[key.lo] = @ \cup mask], "ok")}
    ELSE {Built([pv EXCEPT !.m_map = o.m], o.st)
          : o \in insert_mask(pv.m_map, key, mask)}

\* PatternMatchVector::insert(key, pos) (lines 169-180)
PVInsert(pv, key, pos) == PVStore(pv, key, OneShl(pos))

\* the loop of insert(first, last) (lines 157-167): its state before turn i
LoopSt(pv, mask, st) == [pv |-> pv, mask |-> mask, st |-> st]

\* turn i (0-based) of the loop on pattern p, from each of the states S
BulkTurn(S, p, i) ==
    UNION { IF s.st \in {"hang", "abort"}
            THEN {s}
            ELSE {LoopSt(o.pv, Shl1(s.mask), Worse(s.st, o.st))
                  : o \in PVStore(s.pv, p[i + 1], s.mask)}
          : s \in S }

\* turns lo .. hi of the loop; halving keeps the evaluation shallow
RECURSIVE BulkTurns(_, _, _, _)
BulkTurns(S, p, lo, hi) ==
    IF lo > hi THEN S
    ELSE IF lo = hi THEN BulkTurn(S, p, lo)
    ELSE CHOOSE r \in { BulkTurns(x, p, ((lo + hi) \div 2) + 1, hi)
                        : x \in {BulkTurns(S, p, lo, (lo + hi) \div 2)} } : TRUE

\* PatternMatchVector::insert(first, last) (lines 154-168)
PVBulk(pv, p) ==
    {Built(s.pv, s.st) : s \in BulkTurns({LoopSt(pv, {0}, "ok")}, p, 0, Len(p) - 1)}

\* PatternMatchVector::get(key) (lines 182-191)
PVGet(pv, key) ==
    IF IsNarrow(key)
    THEN {Got(pv.m_extendedAscii[key.lo], "ok")}
    ELSE get(pv.m_map, key)

\* ---------------------------------------------------------------- BlockPatternMatchVector
\* T ceildiv(T a, U divisor) (lines 43-47), a >= 0
ceildiv(a, divisor) == (a \div divisor) + (IF a % divisor # 0 THEN 1 ELSE 0)

\* BlockPatternMatchVector() : m_block_count(0) (lines 199-200); the vectors
\* are functions on 0 .. size - 1
EmptyBV == [m_block_count |-> 0, m_map |-> <<>>, m_extendedAscii |-> <<>>]

\* std::vector::resize(n): the first n elements are kept, new ones are
\* value-initialized (lines 227-228)
Resize(v, n, fill) == [x \in 0 .. n - 1 |-> IF x \in DOMAIN v THEN v[x] ELSE fill]

BBuilt(bv, st) == [bv |-> bv, st |-> st]

\* insert(block, key, pos) after mask = 1ull << pos (lines 213-219).
\* assert(block < m_block_count) aborts; an index outside a vector is
\* undefined behaviour and the store lands outside the vector.
BVStore(bv, block, key, mask) ==
    IF ~(block < bv.m_block_count)
    THEN {BBuilt(bv, "abort")}
    ELSE IF IsNarrow(key)
    THEN LET idx == key.lo * bv.m_block_count + block
         IN  IF idx \in DOMAIN bv.m_extendedAscii
             THEN {BBuilt([bv EXCEPT !.m_extendedAscii[idx] = @ \cup mask], "ok")}
             ELSE {BBuilt(bv, "ub")}
    ELSE IF block \in DOMAIN bv.m_map
    THEN {BBuilt([bv EXCEPT !.m_map[block] = o.m], o.st)
          : o \in insert_mask(bv.m_map[block], key, mask)}
    ELSE {BBuilt(bv, "ub")}

\* BlockPatternMatchVector::insert(block, key, pos) (lines 208-220)
BVInsert(bv, block, key, pos) == BVStore(bv, block, key, OneShl(pos))

\* turn i of the loop of insert(first, last) (lines 230-234)
BVTurn(S, p, i) ==
    UNION { IF s.st \in {"hang", "abort"}
            THEN {s}
            ELSE {BBuilt(o.bv, Worse(s.st, o.st))
                  : o \in BVInsert(s.bv, i \div WordBits, p[i + 1], i % WordBits)}
          : s \in S }

RECURSIVE BVTurns(_, _, _, _)
BVTurns(S, p, lo, hi) ==
    IF lo > hi THEN S
    ELSE IF lo = hi THEN BVTurn(S, p, lo)
    ELSE CHOOSE r \in { BVTurns(x, p, ((lo + hi) \div 2) + 1, hi)
                        : x \in {BVTurns(S, p, lo, (lo + hi) \div 2)} } : TRUE

\* BlockPatternMatchVector::insert(first, last) (lines 222-235)
BVBulk(bv, p) ==
    LET count == ceildiv(Len(p), WordBits)
        sized == [m_block_count   |-> count,
                  m_map           |-> Resize(bv.m_map, count, EmptyMap),
                  m_extendedAscii |-> Resize(bv.m_extendedAscii, count * AsciiSize, {})]
    IN  BVTurns({BBuilt(sized, "ok")}, p, 0, Len(p) - 1)

\* BlockPatternMatchVector::get(block, key) (lines 237-247)
BVGet(bv, block, key) ==
    IF ~(block < bv.m_block_count)
    THEN {Got({}, "abort")}
    ELSE IF IsNarrow(key)
    THEN LET idx == key.lo * bv.m_block_count + block
         IN  IF idx \in DOMAIN bv.m_extendedAscii
             THEN {Got(bv.m_extendedAscii[idx], "ok")}
             ELSE {Got(g, "ub") : g \in Garbage}
    ELSE IF block \in DOMAIN bv.m_map
    THEN get(bv.m_map[block], key)
    ELSE {Got(g, "ub") : g \in Garbage}

\* ---------------------------------------------------------------- state
VARIABLES
    m_map,      \* a BitvectorHashmap used on its own: its m_map array
    pva,        \* a PatternMatchVector
    pvb,        \* a second PatternMatchVector, built position by position
    bv,         \* a BlockPatternMatchVector
    call,       \* the last call made: [op, block, key, pos]
    status,     \* how it ended: "ok", "ub", "hang", "abort"
    ret,        \* the value the last get returned
    asked,      \* history: the (key, pos) pairs the single inserts were given
    log,        \* history: the inserting calls made, in order
    seen        \* history: the (key, bit) pairs the gets on pva have returned

vars == <<m_map, pva, pvb, bv, call, status, ret, asked, log, seen>>

Called(op, block, key, pos) == [op |-> op, block |-> block, key |-> key, pos |-> pos]
NoCall == Called("none", 0, Small(0), 0)

\* a call that hangs or aborts ends the single-threaded program
Running == status \in {"ok", "ub"}

\* the (key, pos) pairs a pattern of at most 64 keys asks for
PairsOf(p) == {<<p[j], j - 1>> : j \in 1 .. Len(p)}
\* the mask a set of pairs gives a key
MaskOf(pairs, key) == {q[2] : q \in {x \in pairs : x[1] = key}}
KeysOf(pairs) == {q[1] : q \in pairs}

Init ==
    /\ m_map = EmptyMap
    /\ pva = EmptyPV
    /\ pvb = EmptyPV
    /\ bv = EmptyBV
    /\ call = NoCall
    /\ status = "ok"
    /\ ret = {}
    /\ asked = {}
    /\ log = <<>>
    /\ seen = {}

\* ---------------------------------------------------------------- BitvectorHashmap alone
MaxInserts == 3                    \* distinct single-position inserts per run

MapKeys == {Small(128), Small(256), Top(AsciiSize), Small(127), Int64Max}
Positions == {0, WordBits - 1}

\* BitvectorHashmap::insert(key, pos) (lines 92-96)
MapInsert(key, pos) ==
    /\ Running
    /\ Cardinality(asked) < MaxInserts
    /\ \E o \in insert_mask(m_map, key, OneShl(pos)) :
          /\ m_map' = o.m
          /\ status' = o.st
    /\ call' = Called("insert", 0, key, pos)
    /\ asked' = asked \cup {<<key, pos>>}
    /\ UNCHANGED <<pva, pvb, bv, ret, log, seen>>

\* BitvectorHashmap::get(key) (lines 106-110)
MapGet(key) ==
    /\ Running
    /\ \E o \in get(m_map, key) :
          /\ ret' = o.ret
          /\ status' = o.st
    /\ call' = Called("get", 0, key, 0)
    /\ UNCHANGED <<m_map, pva, pvb, bv, asked, log, seen>>

NextMap ==
    \/ \E key \in MapKeys, pos \in Positions : MapInsert(key, pos)
    \/ \E key \in MapKeys : MapGet(key)

SpecMap == Init /\ [][NextMap]_vars

\* ---------------------------------------------------------------- PatternMatchVector, any calls
MaxCalls == 2                      \* inserting calls per run

Seq32 == 1 .. (MapSize \div 4)
SeqWord == 1 .. WordBits

PGumbo == <<Small(71), Small(85), Small(77), Small(66), Small(79)>>
PMixed == <<Small(65), Emoji, Small(65), Wide(0)>>
\* 63 times 383, then 2^63 - 1, which shares its first slot 127
PWrap == [j \in SeqWord |-> IF j < WordBits THEN Wide(MapSize - 1) ELSE Int64Max]
PHuge == <<Wide(0), Top(AsciiSize)>>
\* 32 wide keys whose first slots are 3, 7, .., 127
POrbit == [j \in Seq32 |-> Wide(4 * j - 1)]
\* 64 wide keys on the slots 0..63, and 64 on the slots 64..127
PLow == [j \in SeqWord |-> Wide(j - 1)]
PHigh == [j \in SeqWord |-> Wide(WordBits + j - 1)]

PVPatterns == {PGumbo, PMixed, PHuge, PWrap, POrbit, PLow, PHigh}
PVKeys == {Small(90), Emoji, AllOnes, Int64Max}
PVGetKeys == {Small(71), Small(90), Emoji, AllOnes, Int64Max, Top(AsciiSize),
              Wide(0), Wide(MapSize)}

\* insert(first, last) on pva
PVBulkCall(p) ==
    /\ Running
    /\ Len(log) < MaxCalls
    /\ \E o \in PVBulk(pva, p) :
          /\ pva' = o.pv
          /\ status' = o.st
    /\ call' = Called("bulk", 0, Small(0), 0)
    /\ asked' = asked \cup PairsOf(p)
    /\ log' = Append(log, <<"bulk", p>>)
    /\ UNCHANGED <<m_map, pvb, bv, ret, seen>>

\* insert(key, pos) on pva
PVInsertCall(key, pos) ==
    /\ Running
    /\ Len(log) < MaxCalls
    /\ \E o \in PVInsert(pva, key, pos) :
          /\ pva' = o.pv
          /\ status' = o.st
    /\ call' = Called("insert", 0, key, pos)
    /\ asked' = asked \cup {<<key, pos>>}
    /\ log' = Append(log, <<"insert", key, pos>>)
    /\ UNCHANGED <<m_map, pvb, bv, ret, seen>>

\* get(key) on pva
PVGetCall(key) ==
    /\ Running
    /\ \E o \in PVGet(pva, key) :
          /\ ret' = o.ret
          /\ status' = o.st
    /\ call' = Called("get", 0, key, 0)
    /\ UNCHANGED <<m_map, pva, pvb, bv, asked, log, seen>>

NextPV ==
    \/ \E p \in PVPatterns : PVBulkCall(p)
    \/ \E key \in PVKeys, pos \in Positions : PVInsertCall(key, pos)
    \/ \E key \in PVGetKeys : PVGetCall(key)

SpecPV == Init /\ [][NextPV]_vars

\* ---------------------------------------------------------------- PatternMatchVector, one pattern
\* A pattern is inserted into pva by insert(first, last) and into pvb by
\* insert(p[i], i) for i = 0, 1, ..
PSame == [j \in SeqWord |-> Small(65)]
PNarrow == [j \in SeqWord |-> Small(j - 1)]
PEdge == <<Small(AsciiSize - 1), Small(AsciiSize)>>
POne == <<Emoji>>
\* the 32 keys of POrbit, then 2^64 - 1, whose probes are their 32 slots
PStuck == [j \in 1 .. (MapSize \div 4) + 1 |->
             IF j <= MapSize \div 4 THEN Wide(4 * j - 1) ELSE AllOnes]

BuildPatterns == PVPatterns \cup {PSame, PNarrow, PEdge, POne, PStuck}

\* the pattern this run builds, once insert(first, last) was called
Pattern == log[1][2]

\* insert(first, last) on the fresh pva
BuildBulk(p) ==
    /\ Running
    /\ log = <<>>
    /\ \E o \in PVBulk(pva, p) :
          /\ pva' = o.pv
          /\ status' = o.st
    /\ call' = Called("bulk", 0, Small(0), 0)
    /\ log' = <<<<"bulk", p>>>>
    /\ UNCHANGED <<m_map, pvb, bv, ret, asked, seen>>

\* the next insert(p[i], i) on pvb
BuildStep ==
    /\ Running
    /\ log # <<>>
    /\ Cardinality(asked) < Len(Pattern)
    /\ LET i == Cardinality(asked)
       IN  /\ \E o \in PVInsert(pvb, Pattern[i + 1], i) :
                 /\ pvb' = o.pv
                 /\ status' = o.st
           /\ call' = Called("insert", 0, Pattern[i + 1], i)
           /\ asked' = asked \cup {<<Pattern[i + 1], i>>}
    /\ UNCHANGED <<m_map, pva, bv, ret, log, seen>>

\* get(key) on pva, once both are built
BuildGet(key) ==
    /\ Running
    /\ log # <<>>
    /\ Cardinality(asked) = Len(Pattern)
    /\ \E o \in PVGet(pva, key) :
          /\ ret' = o.ret
          /\ status' = o.st
    /\ call' = Called("get", 0, key, 0)
    /\ UNCHANGED <<m_map, pva, pvb, bv, asked, log, seen>>

NextBuild ==
    \/ \E p \in BuildPatterns : BuildBulk(p)
    \/ BuildStep
    \/ \E key \in PVGetKeys : BuildGet(key)

SpecBuild == Init /\ [][NextBuild]_vars

\* ---------------------------------------------------------------- BlockPatternMatchVector
MaxBlockCalls == 2                 \* inserting calls per run

\* 130 keys, narrow at the even positions and wide at the odd ones
B130 == [j \in 1 .. 2 * WordBits + 2 |->
           IF j % 2 = 1 THEN Small((j - 1) % AsciiSize) ELSE Wide(j - 1)]
\* 64 times the same narrow key
B64 == PSame
\* 65 wide keys
B65 == [j \in 1 .. WordBits + 1 |-> Wide(j - 1)]
\* 66 keys: 256 and 2^63 + 256 in turn, which share their first slot
BHuge == [j \in 1 .. WordBits + 2 |-> IF j % 2 = 1 THEN Wide(0) ELSE Top(AsciiSize)]

BVPatterns == {B130, B64, B65, BHuge}
Blocks == {-1, 0, 1, 3}
BVKeys == {Small(1), Emoji}

\* insert(first, last)
BVBulkCall(p) ==
    /\ Running
    /\ Len(log) < MaxBlockCalls
    /\ \E o \in BVBulk(bv, p) :
          /\ bv' = o.bv
          /\ status' = o.st
    /\ call' = Called("bulk", 0, Small(0), 0)
    /\ log' = Append(log, <<"bulk", p>>)
    /\ UNCHANGED <<m_map, pva, pvb, ret, asked, seen>>

\* insert(block, key, pos)
BVInsertCall(block, key, pos) ==
    /\ Running
    /\ Len(log) < MaxBlockCalls
    /\ \E o \in BVInsert(bv, block, key, pos) :
          /\ bv' = o.bv
          /\ status' = o.st
    /\ call' = Called("insert", block, key, pos)
    /\ log' = Append(log, <<"insert", block, key, pos>>)
    /\ UNCHANGED <<m_map, pva, pvb, ret, asked, seen>>

\* get(block, key)
BVGetCall(block, key) ==
    /\ Running
    /\ \E o \in BVGet(bv, block, key) :
          /\ ret' = o.ret
          /\ status' = o.st
    /\ call' = Called("get", block, key, 0)
    /\ UNCHANGED <<m_map, pva, pvb, bv, asked, log, seen>>

NextBV ==
    \/ \E p \in BVPatterns : BVBulkCall(p)
    \/ \E block \in Blocks, key \in BVKeys : BVInsertCall(block, key, WordBits - 1)
    \/ \E block \in Blocks, key \in BVKeys : BVGetCall(block, key)

SpecBV == Init /\ [][NextBV]_vars

\* ---------------------------------------------------------------- PatternMatchVector, gets remembered
MonoPatterns == {PGumbo, PMixed, PHuge}
MonoKeys == {Small(71), Emoji, Wide(0), Top(AsciiSize)}

\* get(key) on pva, remembering the bits it returned
MonoGet(key) ==
    /\ Running
    /\ \E o \in PVGet(pva, key) :
          /\ ret' = o.ret
          /\ status' = o.st
          /\ seen' = IF o.st \in {"ok", "ub"}
                     THEN seen \cup {<<key, b>> : b \in o.ret}
                     ELSE seen
    /\ call' = Called("get", 0, key, 0)
    /\ UNCHANGED <<m_map, pva, pvb, bv, asked, log>>

NextMono ==
    \/ \E p \in MonoPatterns : PVBulkCall(p)
    \/ \E key \in MonoKeys, pos \in Positions : PVInsertCall(key, pos)
    \/ \E key \in MonoKeys : MonoGet(key)

SpecMono == Init /\ [][NextMono]_vars

\* ================================================================ properties
\* A key is tame when lookup's arithmetic is defined for it: perturb = key is
\* not negative and 5 * i + perturb + 1 cannot exceed INT64_MAX for i <= 127.
Tame(k) ==
    \/ k.hi < SignHi - 1
    \/ /\ k.hi = SignHi - 1
       /\ \/ k.mid < Limb - 1
          \/ k.lo <= Limb - 1 - (ProbeMul * (MapSize - 1) + 1)

TamePattern(p) == \A j \in 1 .. Len(p) : Tame(p[j])

\* pva holds exactly one bulk-inserted pattern and the call returned
BulkBuilt == Running /\ log # <<>>
\* ... and pvb holds the same pattern, inserted position by position
BothBuilt == BulkBuilt /\ asked = PairsOf(Pattern)

\* C1: after insert(first, last) of a pattern of 1..64 keys on a fresh
\* PatternMatchVector, get(p[i]) returns a mask with bit i set, for every
\* position i of the pattern.
C1_RoundTrip ==
    BulkBuilt =>
        \A j \in 1 .. Len(Pattern) : \A o \in PVGet(pva, Pattern[j]) :
            o.st = "ok" /\ (j - 1) \in o.ret

\* C1 for patterns of tame keys only
C1_RoundTripTame ==
    (BulkBuilt /\ TamePattern(Pattern)) =>
        \A j \in 1 .. Len(Pattern) : \A o \in PVGet(pva, Pattern[j]) :
            o.st = "ok" /\ (j - 1) \in o.ret

\* C4: after insert(first, last) of a pattern of L <= 64 keys on a fresh
\* PatternMatchVector, for every key c, get(c) has bit i set exactly when
\* i < L and p[i] = c.
C4_ExactBits ==
    BulkBuilt =>
        \A key \in Keys :
            PVGet(pva, key) = {Got(MaskOf(PairsOf(Pattern), key), "ok")}

\* C4 for patterns of tame keys and tame queried keys
C4_ExactBitsTame ==
    (BulkBuilt /\ TamePattern(Pattern)) =>
        \A key \in {k \in Keys : Tame(k)} :
            PVGet(pva, key) = {Got(MaskOf(PairsOf(Pattern), key), "ok")}

\* C9: a PatternMatchVector built by insert(first, last) and one built by
\* insert(p[i], i), i = 0 .. len - 1, return the same get(key) for every key;
\* keys 0..255 live in the direct table only, all others in the hashmap
\* only, and a wide key that was not inserted returns 0.
C9_BulkEqualsSingle ==
    BothBuilt =>
        /\ \A key \in Keys :
              /\ \A oa \in PVGet(pva, key), ob \in PVGet(pvb, key) :
                    oa.st = "ok" /\ ob.st = "ok" /\ oa.ret = ob.ret
              /\ (~IsNarrow(key) /\ key \notin KeysOf(asked)) =>
                    PVGet(pva, key) = {Got({}, "ok")}
        /\ \A c \in DOMAIN pva.m_extendedAscii :
              pva.m_extendedAscii[c] = MaskOf(asked, Small(c))
        /\ \A i \in Slot :
              pva.m_map[i].value # {} => ~IsNarrow(pva.m_map[i].key)

\* C9 for patterns of tame keys and tame queried keys
C9_BulkEqualsSingleTame ==
    (BothBuilt /\ TamePattern(Pattern)) =>
        /\ \A key \in {k \in Keys : Tame(k)} :
              /\ \A oa \in PVGet(pva, key), ob \in PVGet(pvb, key) :
                    oa.st = "ok" /\ ob.st = "ok" /\ oa.ret = ob.ret
              /\ (~IsNarrow(key) /\ key \notin KeysOf(asked)) =>
                    PVGet(pva, key) = {Got({}, "ok")}
        /\ \A c \in DOMAIN pva.m_extendedAscii :
              pva.m_extendedAscii[c] = MaskOf(asked, Small(c))
        /\ \A i \in Slot :
              pva.m_map[i].value # {} => ~IsNarrow(pva.m_map[i].key)

\* the keys the hashmap of pva was asked to hold
Hashed == {k \in KeysOf(asked) : ~IsNarrow(k)}

\* C2: with at most 128 distinct keys inserted, get(key) of a key that was
\* never inserted returns 0, and it does return.
C2_ZeroDefault ==
    (call.op = "get" /\ call.key \notin KeysOf(asked) /\ Cardinality(Hashed) <= MapSize)
        => (status = "ok" /\ ret = {})

\* C2 for tame keys and fewer than 128 keys in the hashmap
C2_ZeroDefaultTame ==
    (/\ call.op = "get" /\ call.key \notin KeysOf(asked)
     /\ Tame(call.key) /\ \A k \in Hashed : Tame(k)
     /\ Cardinality(Hashed) < MapSize)
        => (status = "ok" /\ ret = {})

\* C7: with at most 128 distinct keys in the map, the probe loop of every
\* insert terminates and returns an empty slot or the slot holding the key.
C7_InsertTerminates ==
    (call.op \in {"insert", "bulk"} /\ Cardinality(Hashed) <= MapSize)
        => status = "ok"

\* C7 for tame keys
C7_InsertTerminatesTame ==
    (/\ call.op \in {"insert", "bulk"} /\ \A k \in Hashed : Tame(k)
     /\ Cardinality(Hashed) <= MapSize)
        => status = "ok"

\* C8: inserting a (key, pos) pair that was inserted before changes no
\* mask, slot or table entry.
C8_Idempotent ==
    [][ (call'.op = "insert" /\ log' # log /\ <<call'.key, call'.pos>> \in asked)
            => pva' = pva ]_vars

\* C8 for tame keys
C8_IdempotentTame ==
    [][ (/\ call'.op = "insert" /\ log' # log /\ <<call'.key, call'.pos>> \in asked
         /\ \A k \in Hashed : Tame(k))
            => pva' = pva ]_vars

\* C3: distinct keys that are congruent modulo 128, inserted in any order
\* with distinct positions: get of each key returns exactly the bits inserted
\* for that key.
C3_NoCrossTalk ==
    (/\ call.op = "get" /\ Running
     /\ call.key \in KeysOf(asked)
     /\ \A k \in KeysOf(asked) : Mod128(k) = Mod128(call.key)
     /\ Cardinality({q[2] : q \in asked}) = Cardinality(asked))
        => ret = MaskOf(asked, call.key)

\* C3 for tame keys
C3_NoCrossTalkTame ==
    (/\ call.op = "get" /\ Running
     /\ call.key \in KeysOf(asked)
     /\ \A k \in KeysOf(asked) : Mod128(k) = Mod128(call.key) /\ Tame(k)
     /\ Cardinality({q[2] : q \in asked}) = Cardinality(asked))
        => ret = MaskOf(asked, call.key)

\* C10: every key held in a slot with a non-zero value is held by exactly
\* one slot, and that slot is the first one on the key's probe sequence that
\* is empty or holds the key.
C10_UniqueSlot ==
    \A i \in Slot :
        m_map[i].value # {} =>
            /\ \A j \in Slot \ {i} :
                  ~(m_map[j].value # {} /\ m_map[j].key = m_map[i].key)
            /\ \E r \in lookup(m_map, m_map[i].key) : r.kind = "slot" /\ r.i = i

\* a key sits in a slot other than its first probe: a collision was resolved
C10_Witness ==
    /\ \E i \in Slot : m_map[i].value # {} /\ Mod128(m_map[i].key) # i
    /\ Cardinality({i \in Slot : m_map[i].value # {}}) >= 3

\* the block count a pattern of L keys needs
BlocksFor(L) == CHOOSE n \in 0 .. L : n * WordBits >= L /\ (n - 1) * WordBits < L

\* bv holds exactly one bulk-inserted pattern and the call returned
BlockBuilt == Running /\ Len(log) = 1 /\ log[1][1] = "bulk"

\* C5: after insert(first, last) of a pattern of L keys on a fresh
\* BlockPatternMatchVector, m_block_count = ceil(L / 64) and position i sets
\* bit i % 64 of get(i / 64, p[i]).
C5_BlockMapping ==
    BlockBuilt =>
        /\ bv.m_block_count = BlocksFor(Len(Pattern))
        /\ \A i \in 0 .. Len(Pattern) - 1 :
              \A o \in BVGet(bv, i \div WordBits, Pattern[i + 1]) :
                  o.st = "ok" /\ (i % WordBits) \in o.ret

\* C5 for patterns of tame keys
C5_BlockMappingTame ==
    (BlockBuilt /\ TamePattern(Pattern)) =>
        /\ bv.m_block_count = BlocksFor(Len(Pattern))
        /\ \A i \in 0 .. Len(Pattern) - 1 :
              \A o \in BVGet(bv, i \div WordBits, Pattern[i + 1]) :
                  o.st = "ok" /\ (i % WordBits) \in o.ret

\* C6: insert(block, key, pos) and get(block, key) with a block index outside
\* 0 .. m_block_count - 1 abort.
C6_FailFast ==
    (call.op \in {"insert", "get"} /\ call.block \notin 0 .. bv.m_block_count - 1)
        => status = "abort"

\* C6 for block indices at or above m_block_count
C6_FailFastAbove ==
    (call.op \in {"insert", "get"} /\ call.block >= bv.m_block_count)
        => status = "abort"

\* the pattern of the latest insert(first, last)
LastPattern == log[Len(log)][2]

\* the keys of the patterns bv was ever built from, and the single keys
BuiltKeys ==
    BVKeys \cup UNION {{log[n][2][j] : j \in 1 .. Len(log[n][2])}
                       : n \in {x \in 1 .. Len(log) : log[x][1] = "bulk"}}

\* the word block b of pattern p gives key k
BlockMask(p, b, k) ==
    {j \in BitPos : WordBits * b + j < Len(p) /\ p[WordBits * b + j + 1] = k}

\* insert(first, last) has just returned on bv
BulkReturned == call.op = "bulk" /\ Running /\ Len(log) >= 1 /\ log[Len(log)][1] = "bulk"

\* C11: after insert(first, last) returns, on a fresh instance or on one built
\* before from another sequence, there are ceil(len / 64) maps and
\* 256 * ceil(len / 64) table entries, and get(b, k) has bit j set exactly
\* when 64 * b + j < len and the sequence holds k at 64 * b + j.
C11_BulkHoldsOnlySequence ==
    BulkReturned =>
        /\ bv.m_block_count = BlocksFor(Len(LastPattern))
        /\ DOMAIN bv.m_map = 0 .. bv.m_block_count - 1
        /\ DOMAIN bv.m_extendedAscii = 0 .. AsciiSize * bv.m_block_count - 1
        /\ \A b \in 0 .. bv.m_block_count - 1 : \A k \in BuiltKeys :
              \A o \in BVGet(bv, b, k) :
                  o.st = "ok" /\ o.ret = BlockMask(LastPattern, b, k)

\* C11 on a fresh instance, for patterns of tame keys
C11_FreshBulkTame ==
    (BulkReturned /\ Len(log) = 1 /\ TamePattern(LastPattern)) =>
        /\ bv.m_block_count = BlocksFor(Len(LastPattern))
        /\ DOMAIN bv.m_map = 0 .. bv.m_block_count - 1
        /\ DOMAIN bv.m_extendedAscii = 0 .. AsciiSize * bv.m_block_count - 1
        /\ \A b \in 0 .. bv.m_block_count - 1 : \A k \in BuiltKeys :
              \A o \in BVGet(bv, b, k) :
                  o.st = "ok" /\ o.ret = BlockMask(LastPattern, b, k)

\* a second insert(first, last) of tame keys only, after a first one of tame
\* keys, that leaves a word the second pattern does not give
C11_StaleAfterRebuild ==
    /\ BulkReturned /\ Len(log) = 2 /\ log[1][1] = "bulk" /\ status = "ok"
    /\ TamePattern(log[1][2]) /\ TamePattern(LastPattern)
    /\ \E b \in 0 .. bv.m_block_count - 1 : \E k \in BuiltKeys :
          \E o \in BVGet(bv, b, k) : o.ret # BlockMask(LastPattern, b, k)

\* C12: once a get(key) has returned a word with bit b set, every later
\* get(key) that returns has bit b set, whatever inserts and gets came between.
C12_NeverCleared ==
    (call.op = "get" /\ Running) =>
        \A q \in seen : q[1] = call.key => q[2] \in ret

\* C12 when every key stored or asked for is tame
C12_NeverClearedTame ==
    (/\ call.op = "get" /\ Running /\ Tame(call.key)
     /\ \A n \in 1 .. Len(log) :
           IF log[n][1] = "bulk" THEN TamePattern(log[n][2]) ELSE Tame(log[n][2]))
        => \A q \in seen : q[1] = call.key => q[2] \in ret

\* C12, second half: get changes no slot and no table entry
C12_GetChangesNothing == [][call'.op = "get" => pva' = pva]_vars

\* C13: every slot index lookup computes, key % 128 and each re-probe
\* (i * 5 + perturb + 1) % 128, lies in 0 .. 127 and the signed sum does not
\* overflow: for every key and the table as it is when insert or get is called.
C13_ProbeInRange ==
    [][call'.op \in {"insert", "get"} =>
          \A r \in lookup(m_map, call'.key) : r.kind \in {"slot", "hang"} /\ ~r.ub]_vars

\* C13 for tame keys
C13_ProbeInRangeTame ==
    [][(call'.op \in {"insert", "get"} /\ Tame(call'.key)) =>
          \A r \in lookup(m_map, call'.key) : r.kind \in {"slot", "hang"} /\ ~r.ub]_vars

\* the whole probe sequence of every tame key stays in range, whatever the
\* table holds
C13_AllProbesInRangeTame ==
    \A key \in Keys : Tame(key) =>
        \A n \in 1 .. ProbeLen : Probes(key)[n].i \in Slot /\ ~Probes(key)[n].ovf

=============================================================================
